---- MODULE Spec2Model ----
(***************************************************************************)
(* webpify: walk a directory tree, convert the eligible images to WebP     *)
(* with a multiprocessing pool, print a summary.                           *)
(*                                                                         *)
(* Source: src/src/webpify/webpify.py                                      *)
(*                                                                         *)
(* Strings are modelled as sequences of words; "w in msg" of the source is *)
(* membership of the word w in the sequence.  A path is a record           *)
(* [dir, stem, ext] with dir the sequence of its directory components.     *)
(* The codec (PIL) is an environment: what Image.open and img.save do is   *)
(* decided by the content of the file, what mkdir, unlink and the opening  *)
(* of a destination do by the permissions of the environment (deny).       *)
(***************************************************************************)
EXTENDS Integers, Sequences, FiniteSets, TLC

VARIABLES
    args,       \* the arguments of convert_to_webp_parallel
    deny,       \* environment: what the filesystem refuses
    disk,       \* the files: path -> content
    dirs,       \* the directories that exist
    pc,         \* position of convert_to_webp_parallel
    tasks,      \* the list tasks (line 79)
    batches,    \* the pool's task batches: state of each chunk of tasks
    inv,        \* the invocations of _process_single_image, one per task
    results,    \* the list results (line 114)
    stdout,     \* the lines printed
    counts,     \* processed_count, error_count, skipped_count (lines 118-120)
    exc,        \* the exception that left convert_to_webp_parallel, or "none"
    hist        \* history: the files and directories before the run, the
                \* number of the run, the results and files of a first run

vars == <<args, deny, disk, dirs, pc, tasks, batches, inv, results, stdout, counts, exc, hist>>

(***************************************************************************)
(* Bounds of the model                                                     *)
(***************************************************************************)
\* files in the tree before the run
MaxFiles == 2
\* os.cpu_count(): the number of processes of the pool
NumProcs == 2

(***************************************************************************)
(* Program constants                                                       *)
(***************************************************************************)
\* the parameters of def _process_single_image(args_tuple)
NumParams == 1
\* --quality default
Quality == 80
DEFAULT_MIME_TYPES == {"image/jpeg", "image/png", "image/gif"}
DEFAULT_SKIP_TYPES == {"image/webp"}

\* Image.MIME.get(img.format): PIL's table, "None" for a format without entry
MIME(fmt) ==
    CASE fmt = "JPEG" -> "image/jpeg"
      [] fmt = "PNG"  -> "image/png"
      [] fmt = "GIF"  -> "image/gif"
      [] fmt = "WEBP" -> "image/webp"
      [] fmt = "BMP"  -> "image/bmp"
      [] OTHER        -> "None"

(***************************************************************************)
(* Paths                                                                   *)
(***************************************************************************)
Path(d, s, e) == [dir |-> d, stem |-> s, ext |-> e]

\* str.lower() on the suffixes of the model
Lower(ext) ==
    CASE ext = ".WEBP" -> ".webp"
      [] ext = ".JPG"  -> ".jpg"
      [] OTHER         -> ext

\* the words of str(path)
PathWords(p) == p.dir \o <<p.stem, p.ext>>

IsPrefix(a, b) == Len(a) <= Len(b) /\ SubSeq(b, 1, Len(a)) = a

\* a directory and its parents
Prefixes(d) == {SubSeq(d, 1, k) : k \in 1..Len(d)}

\* Path.relative_to(base): defined when base is a prefix
RelativeTo(p, base) ==
    [p EXCEPT !.dir = SubSeq(p.dir, Len(base) + 1, Len(p.dir))]

\* Path.with_suffix(".webp")
WithSuffix(p, e) == [p EXCEPT !.ext = e]

\* base / relative
Join(base, rel) == [rel EXCEPT !.dir = base \o rel.dir]

InputRoot == <<"in">>
OutputRoots == {<<"in">>, <<"out">>, <<"in", "out">>}

\* the files a tree may hold before the run
TreePaths ==
    { Path(<<"in">>, "a", ".jpg"),
      Path(<<"in">>, "a", ".png"),
      Path(<<"in", "sub", "x">>, "Converted", ".jpg"),
      Path(<<"in">>, "a", ".webp"),
      Path(<<"in">>, "b", ".WEBP") }

(***************************************************************************)
(* File contents: fmt is what the decoder finds in the header ("GARBAGE":  *)
(* Image.open raises; "NONE": the image has no format), trunc says the     *)
(* pixel data is truncated (img.save raises), px and q identify the data.  *)
(***************************************************************************)
Original(p, fmt, trunc) == [fmt |-> fmt, trunc |-> trunc, px |-> p, q |-> 0]

\* what img.save(output_file, "WEBP", quality=quality) writes
Encoded(img, quality) == [fmt |-> "WEBP", trunc |-> FALSE, px |-> img.px, q |-> quality]

Kinds ==
    { <<"JPEG", FALSE>>, <<"JPEG", TRUE>>, <<"PNG", FALSE>>, <<"WEBP", FALSE>>,
      <<"BMP", FALSE>>, <<"GARBAGE", FALSE>>, <<"NONE", FALSE>> }

\* the contents a file of the tree may have: a .webp file holds WebP, the
\* .jpg file of the input root anything but PNG
KindsOf(p) ==
    CASE Lower(p.ext) = ".webp" -> {<<"WEBP", FALSE>>}
      [] p.ext = ".png"         -> {<<"PNG", FALSE>>, <<"GARBAGE", FALSE>>}
      [] p.stem = "Converted"   -> {<<"JPEG", FALSE>>, <<"JPEG", TRUE>>, <<"NONE", FALSE>>}
      [] OTHER                  -> Kinds \ {<<"PNG", FALSE>>}

Trees ==
    UNION { { [p \in F |-> Original(p, k[p][1], k[p][2])] :
                k \in { g \in [F -> Kinds] : \A p \in F : g[p] \in KindsOf(p) } } :
            F \in { G \in SUBSET TreePaths : Cardinality(G) <= MaxFiles } }

(***************************************************************************)
(* Messages (sequences of words)                                           *)
(***************************************************************************)
Contains(msg, w) == \E i \in 1..Len(msg) : msg[i] = w

MsgAlreadyWebP(p)      == <<"Skipped", "(already", "WebP):">> \o PathWords(p)
MsgUnknown(p)          == <<"Skipped", "(unknown", "format):">> \o PathWords(p)
MsgSkipMime(m, p)      == <<"Skipped", "(mime", "type", m, "):">> \o PathWords(p)
MsgUnsupported(m, p)   == <<"Skipped", "(unsupported", "mime", "type", m, "):">> \o PathWords(p)
MsgConverted(p, o)     == <<"Converted">> \o PathWords(p) \o <<"to">> \o PathWords(o)
NoteDeleted(p)         == <<"|", "Deleted", "original">> \o PathWords(p)
NoteDeleteFailed(p, e) == <<"|", "FAILED", "to", "delete", "original">> \o PathWords(p) \o <<":">> \o e
MsgError(p, e)         == <<"Error", "processing">> \o PathWords(p) \o <<":">> \o e

\* str(e) of the exceptions of the environment
ErrUnidentified(p) == <<"cannot", "identify", "image", "file">> \o PathWords(p)
ErrNotFound(p)     == <<"No", "such", "file", "or", "directory:">> \o PathWords(p)
ErrTruncated       == <<"image", "file", "is", "truncated">>
ErrDeniedDir(d)    == <<"Permission", "denied:">> \o d
ErrDenied(p)       == <<"Permission", "denied:">> \o PathWords(p)
ErrEncoder         == <<"encoder", "error", "-2", "when", "writing", "image", "file">>

(***************************************************************************)
(* The task tuple (lines 92-100) and the call of the worker                *)
(***************************************************************************)
Task(file_path, a) ==
    <<file_path, InputRoot, a.output_path, a.quality, a.mime_types, a.skip_types,
      a.delete_original>>

\* relative_path, output_file (lines 43-44)
OutputFile(t) == Join(t[3], WithSuffix(RelativeTo(t[1], t[2]), ".webp"))

\* Binding the positional arguments argv to the parameters of
\* def _process_single_image(args_tuple): Python raises TypeError when their
\* number is not the number of parameters.
Bind(argv) == IF Len(argv) = NumParams THEN "ok" ELSE "TypeError"

\* variant of StarArgs: pool.map(func, tasks) calls func(task), the task is
\* the one argument
StarArgsAsOne(t) == <<t>>

\* pool.starmap(func, tasks) calls func(*task): the elements of the task are
\* the positional arguments
StarArgs(t) == t

ErrTypeError(n) ==
    <<"_process_single_image()", "takes", "1", "positional", "argument", "but",
      ToString(n), "were", "given">>

(***************************************************************************)
(* The directory scan (lines 79-101)                                       *)
(***************************************************************************)
\* the files os.walk(input_path) reaches
Walked(d, ds) == {p \in DOMAIN d : IsPrefix(InputRoot, p.dir) /\ p.dir \in ds}

\* variant of Catalogued: no suffix test at line 86
CataloguedAnySuffix(d, ds) == Walked(d, ds)

\* those that pass the suffix filter of line 86
Catalogued(d, ds) == {p \in Walked(d, ds) : Lower(p.ext) # ".webp"}

\* the orders os.walk may list them in: top-down, a directory's files before
\* those of its subdirectories; the order inside a directory is the
\* filesystem's
ScanOrders(S) ==
    { s \in [1..Cardinality(S) -> S] :
        /\ \A i, j \in DOMAIN s : i # j => s[i] # s[j]
        /\ \A i, j \in DOMAIN s :
              (s[i].dir # s[j].dir /\ IsPrefix(s[i].dir, s[j].dir)) => i < j }

(***************************************************************************)
(* Invocations of the worker                                               *)
(***************************************************************************)
NoPath == Path(<<>>, "", "")
NoImg == [fmt |-> "", trunc |-> FALSE, px |-> NoPath, q |-> 0]

Idle == [st |-> "idle", img |-> NoImg, msg |-> <<>>]
Returned(m) == [st |-> "returned", img |-> NoImg, msg |-> m]
Raised(e) == [st |-> "raised", img |-> NoImg, msg |-> e]
At(st, img, m) == [st |-> st, img |-> img, msg |-> m]

\* lines 20-40: the suffix check, Image.open, the format and mime checks
OpenStep(t, d) ==
    LET file_path == t[1]
        mime_types == t[5]
        skip_types == t[6]
    IN  IF Lower(file_path.ext) = ".webp" THEN Returned(MsgAlreadyWebP(file_path))
        ELSE IF file_path \notin DOMAIN d
            THEN Returned(MsgError(file_path, ErrNotFound(file_path)))
        ELSE IF d[file_path].fmt = "GARBAGE"
            THEN Returned(MsgError(file_path, ErrUnidentified(file_path)))
        ELSE IF d[file_path].fmt = "NONE" THEN Returned(MsgUnknown(file_path))
        ELSE LET mime_type == MIME(d[file_path].fmt)
             IN  IF mime_type \in skip_types
                     THEN Returned(MsgSkipMime(mime_type, file_path))
                 ELSE IF mime_type \notin mime_types
                     THEN Returned(MsgUnsupported(mime_type, file_path))
                 ELSE At("mkdir", d[file_path], <<>>)

\* the directories mkdir(parents=True, exist_ok=True) has to create
Missing(d, ds) == Prefixes(d) \ ds

(***************************************************************************)
(* The body of _process_single_image as a function of the files d and the  *)
(* directories ds: one call, args_tuple bound to the task t, from line 18  *)
(* to its return.  img.save loads the pixel data (a truncated file raises  *)
(* there), then opens the destination "w+b", which the environment may     *)
(* refuse (dn.open), then encodes into it, which may fail (dn.encode): the *)
(* destination is then left empty, or removed when img.save has created    *)
(* it and the Pillow of the build removes what it created (dn.cleanup).    *)
(***************************************************************************)
\* a file opened "w+b" and not written
Emptied == [fmt |-> "GARBAGE", trunc |-> FALSE, px |-> NoPath, q |-> 0]

ProcessSingleImage(t, d, ds, dn) ==
    LET file_path == t[1]
        quality == t[4]
        delete_original == t[7]
        output_file == OutputFile(t)
        o == OpenStep(t, d)
        refused == Missing(output_file.dir, ds) \cap dn.mkdir
        ds2 == ds \cup Prefixes(output_file.dir)
        d2 == [p \in DOMAIN d \cup {output_file} |->
                  IF p = output_file THEN Encoded(o.img, quality) ELSE d[p]]
        d3 == IF dn.cleanup /\ output_file \notin DOMAIN d THEN d
              ELSE [p \in DOMAIN d \cup {output_file} |->
                       IF p = output_file THEN Emptied ELSE d[p]]
        result_msg == MsgConverted(file_path, output_file)
    IN  IF o.st = "returned" THEN [msg |-> o.msg, disk |-> d, dirs |-> ds]
        ELSE IF refused # {}
            THEN [msg |-> MsgError(file_path,
                              ErrDeniedDir(CHOOSE x \in refused :
                                  \A e \in refused : Len(x) <= Len(e))),
                  disk |-> d,
                  dirs |-> ds \cup {x \in Missing(output_file.dir, ds) :
                                      \A e \in refused : Len(x) < Len(e)}]
        ELSE IF o.img.trunc
            THEN [msg |-> MsgError(file_path, ErrTruncated), disk |-> d, dirs |-> ds2]
        ELSE IF output_file \in dn.open
            THEN [msg |-> MsgError(file_path, ErrDenied(output_file)),
                  disk |-> d, dirs |-> ds2]
        ELSE IF output_file \in dn.encode
            THEN [msg |-> MsgError(file_path, ErrEncoder), disk |-> d3, dirs |-> ds2]
        ELSE IF ~delete_original
            THEN [msg |-> result_msg, disk |-> d2, dirs |-> ds2]
        ELSE IF file_path \in dn.unlink
            THEN [msg |-> result_msg \o NoteDeleteFailed(file_path, ErrDenied(file_path)),
                  disk |-> d2, dirs |-> ds2]
        ELSE [msg |-> result_msg \o NoteDeleted(file_path),
              disk |-> [p \in DOMAIN d2 \ {file_path} |-> d2[p]], dirs |-> ds2]

\* variant of Call: the worker declares the seven elements of the task as
\* its parameters, and line 52 does not test delete_original
CallSevenAlwaysUnlink(argv, d, ds, dn) ==
    LET r == ProcessSingleImage([argv EXCEPT ![7] = TRUE], d, ds, dn)
    IN  [inv |-> Returned(r.msg), disk |-> r.disk, dirs |-> r.dirs]

\* _process_single_image called with the positional arguments argv: the
\* binding to the parameter args_tuple (line 15), which raises outside the
\* try of line 20, then the body
Call(argv, d, ds, dn) ==
    IF Bind(argv) = "ok"
    THEN LET r == ProcessSingleImage(argv[1], d, ds, dn)
         IN  [inv |-> Returned(r.msg), disk |-> r.disk, dirs |-> r.dirs]
    ELSE [inv |-> Raised(ErrTypeError(Len(argv))), disk |-> d, dirs |-> ds]

\* Pool._map_async in a pool of one process:
\* chunksize, extra = divmod(len(iterable), 1 * 4)
ChunkSizeOne(n) ==
    LET q == n \div 4
        r == n % 4
    IN  IF r # 0 THEN q + 1 ELSE q

RECURSIVE SerialRun(_, _, _, _, _)
\* The calls func(*task) that the one process of a pool makes for the first
\* n tasks of ts, one after the other, batch after batch: a call that
\* raises ends its batch, the next batch goes on.  raised holds the tasks
\* whose call raised.
SerialRun(ts, n, d, ds, dn) ==
    IF n = 0 THEN [results |-> <<>>, disk |-> d, dirs |-> ds, raised |-> {}]
    ELSE LET before == SerialRun(ts, n - 1, d, ds, dn)
             c == ChunkSizeOne(Len(ts))
             notCalled == \E j \in before.raised : (j - 1) \div c = (n - 1) \div c
             r == Call(StarArgs(ts[n]), before.disk, before.dirs, dn)
         IN  IF notCalled THEN before
             ELSE IF r.inv.st = "raised" THEN [before EXCEPT !.raised = @ \cup {n}]
             ELSE [results |-> Append(before.results, r.inv.msg), disk |-> r.disk,
                   dirs |-> r.dirs, raised |-> before.raised]

\* lines 112-114 with os.cpu_count() = 1: starmap returns the list of the
\* results or raises the exception of a call, and then results is never
\* assigned
PoolOfOne(ts, d, ds, dn) ==
    LET r == SerialRun(ts, Len(ts), d, ds, dn)
    IN  [results |-> IF r.raised = {} THEN r.results ELSE <<>>,
         disk |-> r.disk, dirs |-> r.dirs,
         exc |-> IF r.raised = {} THEN "none" ELSE "TypeError"]

(***************************************************************************)
(* convert_to_webp_parallel                                                *)
(***************************************************************************)
Line(tag, text, n) == [tag |-> tag, text |-> text, n |-> n]

NoCounts == [processed |-> 0, error |-> 0, skipped |-> 0]

\* lines 103-105: the catalog is empty
NoTasksOutcome(ds, out) ==
    [dirs |-> ds, pc |-> "returned", tasks |-> <<>>, exc |-> "none",
     stdout |-> out \o <<Line("none_found", <<>>, 0)>>]

\* variant of NoInputOutcome: the output directory is created before the
\* input path is tested
NoInputCreatesOutput(a, ds) ==
    [dirs |-> ds \cup Prefixes(a.output_path), pc |-> "returned", tasks |-> <<>>,
     exc |-> "none",
     stdout |-> <<Line("creating", a.output_path, 0), Line("no_input", InputRoot, 0)>>]

\* lines 71-73: the input path does not exist
NoInputOutcome(a, ds) ==
    [dirs |-> ds, pc |-> "returned", tasks |-> <<>>, exc |-> "none",
     stdout |-> <<Line("no_input", InputRoot, 0)>>]

\* lines 68-108: the outcomes of the part of the run before the pool, from
\* arguments a, environment dn, files d and directories ds
StartOutcomes(a, dn, d, ds) ==
    IF InputRoot \notin ds
    THEN { NoInputOutcome(a, ds) }
    ELSE LET create == a.output_path \notin ds
             refused == Missing(a.output_path, ds) \cap dn.mkdir
             ds2 == ds \cup Prefixes(a.output_path)
             out1 == IF create THEN <<Line("creating", a.output_path, 0)>> ELSE <<>>
             out2 == out1 \o <<Line("scanning", <<>>, 0)>>
         IN  IF create /\ refused # {}
             THEN { [dirs |-> ds, pc |-> "crashed", tasks |-> <<>>,
                     exc |-> "PermissionError", stdout |-> out1] }
             ELSE { IF Len(s) = 0
                    THEN NoTasksOutcome(ds2, out2)
                    ELSE [dirs |-> ds2, pc |-> "pool", exc |-> "none",
                          tasks |-> [i \in 1..Len(s) |-> Task(s[i], a)],
                          stdout |-> out2 \o <<Line("found", <<>>, Len(s)),
                                               Line("starting", <<>>, NumProcs)>>]
                    : s \in ScanOrders(Catalogued(d, ds2)) }

\* Pool._map_async: chunksize, extra = divmod(len(iterable), len(pool) * 4)
ChunkSize(n) ==
    LET q == n \div (NumProcs * 4)
        r == n % (NumProcs * 4)
    IN  IF r # 0 THEN q + 1 ELSE q

\* Pool._get_tasks: the number of batches of n tasks
NumBatches(n) == IF n = 0 THEN 0 ELSE (n + ChunkSize(n) - 1) \div ChunkSize(n)

\* the tasks of batch c
BatchLo(c) == (c - 1) * ChunkSize(Len(tasks)) + 1
BatchHi(c) ==
    IF c * ChunkSize(Len(tasks)) < Len(tasks) THEN c * ChunkSize(Len(tasks)) ELSE Len(tasks)
BatchTasks(c) == BatchLo(c)..BatchHi(c)

BatchDone(c) ==
    \/ batches[c] = "failed"
    \/ batches[c] = "running" /\ \A k \in BatchTasks(c) : inv[k].st = "returned"

Start ==
    /\ pc = "start"
    /\ \E o \in StartOutcomes(args, deny, disk, dirs) :
          /\ dirs' = o.dirs
          /\ pc' = o.pc
          /\ tasks' = o.tasks
          /\ exc' = o.exc
          /\ stdout' = o.stdout
          /\ inv' = [i \in 1..Len(o.tasks) |-> Idle]
          /\ batches' = [c \in 1..NumBatches(Len(o.tasks)) |-> "queued"]
    /\ UNCHANGED <<args, deny, hist, disk, results, counts>>

\* a process of the pool takes a batch from the task queue (pool.worker: get())
TakeBatch(c) ==
    /\ pc = "pool"
    /\ batches[c] = "queued"
    /\ Cardinality({b \in DOMAIN batches : batches[b] = "running" /\ ~BatchDone(b)}) < NumProcs
    /\ batches' = [batches EXCEPT ![c] = "running"]
    /\ UNCHANGED <<args, deny, hist, disk, dirs, pc, tasks, inv, results, stdout, counts, exc>>

\* starmapstar: list(itertools.starmap(func, batch)) calls func(*task) for the
\* next task of the batch; an exception ends the batch with (False, e).  The
\* call is one step: it ends at the binding of its arguments, before it
\* reads or writes a file, so the calls of two processes have no steps to
\* interleave.
PoolCall(c) ==
    /\ pc = "pool"
    /\ batches[c] = "running"
    /\ \E k \in BatchTasks(c) :
          /\ inv[k].st = "idle"
          /\ \A j \in BatchTasks(c) : j < k => inv[j].st = "returned"
          /\ LET r == Call(StarArgs(tasks[k]), disk, dirs, deny)
             IN  /\ inv' = [inv EXCEPT ![k] = r.inv]
                 /\ disk' = r.disk
                 /\ dirs' = r.dirs
                 /\ batches' = IF r.inv.st = "raised"
                               THEN [batches EXCEPT ![c] = "failed"] ELSE batches
    /\ UNCHANGED <<args, deny, hist, pc, tasks, results, stdout, counts, exc>>

\* lines 123-128
Category(msg) ==
    IF Contains(msg, "Converted") THEN "converted"
    ELSE IF Contains(msg, "Error") THEN "error"
    ELSE IF Contains(msg, "Skipped") THEN "skipped"
    ELSE "none"

Count(rs, cat) == Cardinality({k \in 1..Len(rs) : Category(rs[k]) = cat})

\* lines 116-135: the counts and the lines printed for the results rs of n
\* tasks
Summary(rs, n) ==
    LET cn == [processed |-> Count(rs, "converted"),
               error |-> Count(rs, "error"),
               skipped |-> Count(rs, "skipped")]
    IN  [counts |-> cn,
         stdout |-> <<Line("header", <<>>, 0)>>
                    \o [k \in 1..Len(rs) |-> Line("msg", rs[k], 0)]
                    \o <<Line("sep", <<>>, 0),
                         Line("total", <<>>, n),
                         Line("converted", <<>>, cn.processed),
                         Line("skipped", <<>>, cn.skipped),
                         Line("errors", <<>>, cn.error),
                         Line("finished", <<>>, 0)>>]

\* lines 112-135: starmap ends when every batch is done (MapResult._set).
\* It raises the first exception stored, which leaves the with block and
\* convert_to_webp_parallel; or it returns the list of the results, and the
\* summary loop goes over them and prints the totals.
StarmapGet ==
    /\ pc = "pool"
    /\ \A c \in DOMAIN batches : BatchDone(c)
    /\ IF \E c \in DOMAIN batches : batches[c] = "failed"
       THEN /\ pc' = "crashed"
            /\ exc' = "TypeError"
            /\ UNCHANGED <<results, stdout, counts>>
       ELSE LET rs == [k \in 1..Len(tasks) |-> inv[k].msg]
                s == Summary(rs, Len(tasks))
            IN  /\ results' = rs
                /\ counts' = s.counts
                /\ stdout' = stdout \o s.stdout
                /\ pc' = "returned"
                /\ exc' = exc
    /\ UNCHANGED <<args, deny, hist, disk, dirs, tasks, batches, inv>>

(***************************************************************************)
(* Initial states: the arguments, the tree and the environment             *)
(***************************************************************************)
Filters ==
    { <<DEFAULT_MIME_TYPES, DEFAULT_SKIP_TYPES>>,
      <<{"image/jpeg", "image/webp"}, {}>>,
      <<{"image/jpeg", "image/png"}, {"image/jpeg"}>> }

ArgChoices ==
    { [output_path |-> o, quality |-> Quality, mime_types |-> f[1], skip_types |-> f[2],
       delete_original |-> del] :
      o \in OutputRoots, f \in Filters, del \in BOOLEAN }

EmptyTree == [p \in {} |-> NoImg]

TreeDirs(d) == {InputRoot} \cup UNION {Prefixes(p.dir) : p \in DOMAIN d}

\* the directories there may be when the input root does not exist
DirsWithoutInput == {{}, {<<"out">>}}

\* the history at the start of a first run on files d and directories ds
FirstRun(d, ds) ==
    [disk0 |-> d, dirs0 |-> ds, run |-> 1, res1 |-> <<>>, exc1 |-> "none",
     disk1 |-> EmptyTree]

\* the refusals of the environment that the run can meet: the unlink of one
\* source, and one of the mkdir of a directory, the opening of a
\* destination, the encoding into it
DenyChoices(a, d) ==
    LET dest == Path(a.output_path, "a", ".webp")
        NoRefusal == [mkdir |-> {}, open |-> {}, encode |-> {}, cleanup |-> FALSE]
    IN  { [unlink |-> u, mkdir |-> r.mkdir, open |-> r.open, encode |-> r.encode,
           cleanup |-> r.cleanup] :
            u \in (IF a.delete_original
                   THEN {{}} \cup {{p} : p \in {f \in DOMAIN d : Lower(f.ext) # ".webp"}}
                   ELSE {{}}),
            r \in { NoRefusal,
                    [NoRefusal EXCEPT !.open = {dest}],
                    [NoRefusal EXCEPT !.encode = {dest}],
                    [NoRefusal EXCEPT !.encode = {dest}, !.cleanup = TRUE] }
                  \cup (IF a.output_path = InputRoot THEN {}
                        ELSE { [NoRefusal EXCEPT !.mkdir = {a.output_path}],
                               [NoRefusal EXCEPT !.mkdir = {a.output_path \o <<"sub">>}] }) }

Init ==
    /\ args \in ArgChoices
    /\ \E exists \in BOOLEAN :
          /\ disk \in (IF exists THEN Trees ELSE {EmptyTree})
          /\ dirs \in (IF exists THEN {TreeDirs(disk)} ELSE DirsWithoutInput)
    /\ deny \in DenyChoices(args, disk)
    /\ hist = FirstRun(disk, dirs)
    /\ pc = "start"
    /\ tasks = <<>>
    /\ batches = <<>>
    /\ inv = <<>>
    /\ results = <<>>
    /\ stdout = <<>>
    /\ counts = NoCounts
    /\ exc = "none"

Next ==
    \/ Start
    \/ \E c \in DOMAIN batches : TakeBatch(c)
    \/ \E c \in DOMAIN batches : PoolCall(c)
    \/ StarmapGet

Spec == Init /\ [][Next]_vars

(***************************************************************************)
(* The program run a second time with the same arguments, on the files and *)
(* directories the first run left.                                         *)
(***************************************************************************)
\* main again, after the first run has returned or raised
Rerun ==
    /\ pc \in {"returned", "crashed"}
    /\ hist.run = 1
    /\ hist' = [disk0 |-> disk, dirs0 |-> dirs, run |-> 2, res1 |-> results,
                exc1 |-> exc, disk1 |-> disk]
    /\ pc' = "start"
    /\ tasks' = <<>>
    /\ batches' = <<>>
    /\ inv' = <<>>
    /\ results' = <<>>
    /\ stdout' = <<>>
    /\ counts' = NoCounts
    /\ exc' = "none"
    /\ UNCHANGED <<args, deny, disk, dirs>>

TwiceNext ==
    \/ Start
    \/ \E c \in DOMAIN batches : TakeBatch(c)
    \/ \E c \in DOMAIN batches : PoolCall(c)
    \/ StarmapGet
    \/ Rerun

TwiceSpec == Init /\ [][TwiceNext]_vars

(***************************************************************************)
(* Vocabulary of the properties                                            *)
(***************************************************************************)
Ended == pc \in {"returned", "crashed"}

LinesTagged(tag) == {k \in 1..Len(stdout) : stdout[k].tag = tag}

SummaryPrinted ==
    \A tag \in {"total", "converted", "skipped", "errors"} :
        Cardinality(LinesTagged(tag)) = 1

PrintedNumber(tag) == stdout[CHOOSE k \in LinesTagged(tag) : TRUE].n

FilePath(i) == tasks[i][1]

\* the sources of the tasks
Sources == {FilePath(i) : i \in DOMAIN tasks}

\* the content the source of task i had when the run started
SourceContent(i) == hist.disk0[FilePath(i)]

\* the format in the content of the source of task i
SourceFmt(i) == SourceContent(i).fmt

Decodable(i) == SourceFmt(i) \notin {"GARBAGE", "NONE"}

\* the directories of p below the input root
BelowInput(p) == SubSeq(p.dir, Len(InputRoot) + 1, Len(p.dir))

\* where the output of task i belongs: its source relative to the input
\* root, under the output root, with the suffix .webp
Dest(i) == Path(args.output_path \o BelowInput(FilePath(i)), FilePath(i).stem, ".webp")

\* the destination of task i holds what task i encoded
WrittenBy(i) ==
    /\ Dest(i) \in DOMAIN disk
    /\ disk[Dest(i)] = Encoded(SourceContent(i), args.quality)

\* the files written in the run
WrittenInRun == {p \in DOMAIN disk : disk[p].q # 0}

\* the call for task i has returned a message
HasOutcome(i) == inv[i].st = "returned"

\* the message of task i is the one of line 49
SaidConverted(i) == HasOutcome(i) /\ inv[i].msg[1] = "Converted"

\* the directories at line 108, after the mkdir of line 77
DirsAtFanOut == hist.dirs0 \cup Prefixes(args.output_path)

\* task i is one to convert: a decodable image whose mime type is allowed
\* and not to skip, with complete pixel data, and the environment lets its
\* destination be created and written
Eligible(i) ==
    /\ Decodable(i)
    /\ MIME(SourceFmt(i)) \in args.mime_types \ args.skip_types
    /\ ~SourceContent(i).trunc
    /\ (Prefixes(Dest(i).dir) \ DirsAtFanOut) \cap deny.mkdir = {}
    /\ Dest(i) \notin deny.open \cup deny.encode

\* the kind of outcome behind a message of the worker: lines 48-49 begin it
\* with Converted, the handler of line 63 with Error, every other return
\* with Skipped
OutcomeKind(msg) ==
    CASE msg[1] = "Converted" -> "converted"
      [] msg[1] = "Error"     -> "error"
      [] OTHER                -> "skipped"

CountKind(rs, kind) == Cardinality({k \in 1..Len(rs) : OutcomeKind(rs[k]) = kind})

(***************************************************************************)
(* C1: every call of the worker made by pool.starmap returns an outcome    *)
(* message; no exception leaves a call into the pool or the parent.        *)
(***************************************************************************)
C1_PoolCallsReturn ==
    /\ \A i \in DOMAIN inv : inv[i].st # "raised"
    /\ exc # "TypeError"

(***************************************************************************)
(* C2: a run whose input root exists and whose catalog holds a task ends   *)
(* having printed one line per catalogued file and then the totals.        *)
(***************************************************************************)
C2_RunEndsWithTotals ==
    (Ended /\ Len(tasks) >= 1) =>
        /\ Cardinality(LinesTagged("msg")) = Len(tasks)
        /\ SummaryPrinted
        /\ \A k \in LinesTagged("msg") : \A t \in LinesTagged("total") : k < t

(***************************************************************************)
(* C3: at the end of the run every task of the catalog has been processed  *)
(* by the worker exactly once and has its one outcome in results: as many  *)
(* outcomes as tasks.                                                      *)
(***************************************************************************)
C3_OneOutcomePerTask ==
    Ended =>
        /\ Len(results) = Len(tasks)
        /\ \A i \in DOMAIN inv : inv[i].st = "returned" /\ results[i] = inv[i].msg

C5_FaultIsolation ==
    (Ended /\ Len(tasks) >= 2) =>
        \A i \in DOMAIN inv :
            inv[i].st = "raised" =>
                \A j \in DOMAIN inv \ {i} :
                    /\ inv[j].st = "returned"
                    /\ j \in DOMAIN results
                    /\ results[j] = inv[j].msg

(***************************************************************************)
(* C6: a file whose content cannot be decoded, or whose format is not      *)
(* known, gets the outcome Skipped (unknown format), never Error, and is   *)
(* counted as skipped: the run ends with that outcome for it and with the  *)
(* file in the skipped total.                                              *)
(***************************************************************************)
C6_UndecodableIsSkipped ==
    \A i \in DOMAIN inv :
        ~Decodable(i) =>
            /\ HasOutcome(i) =>
                  /\ inv[i].msg = MsgUnknown(FilePath(i))
                  /\ Category(inv[i].msg) = "skipped"
            /\ Ended =>
                  /\ HasOutcome(i)
                  /\ SummaryPrinted
                  /\ PrintedNumber("skipped") >= 1

(***************************************************************************)
(* C7: a task whose content is WebP, whatever its extension and whatever   *)
(* mime_types and skip_types, gets Skipped (already WebP) and is never     *)
(* encoded or written: the run ends with that outcome for it.              *)
(***************************************************************************)
C7_WebPContentAlwaysSkipped ==
    \A i \in DOMAIN inv :
        SourceFmt(i) = "WEBP" =>
            /\ ~WrittenBy(i)
            /\ HasOutcome(i) => inv[i].msg = MsgAlreadyWebP(FilePath(i))
            /\ Ended =>
                  /\ HasOutcome(i)
                  /\ i \in DOMAIN results
                  /\ results[i] = MsgAlreadyWebP(FilePath(i))

(***************************************************************************)
(* C8: a run over an existing input directory without catalogued tasks     *)
(* prints the summary with total 0 and all counts 0.                       *)
(***************************************************************************)
C8_EmptyPrintsZeroSummary ==
    (pc = "returned" /\ InputRoot \in dirs /\ Len(tasks) = 0) =>
        /\ SummaryPrinted
        /\ PrintedNumber("total") = 0
        /\ PrintedNumber("converted") = 0
        /\ PrintedNumber("skipped") = 0
        /\ PrintedNumber("errors") = 0

\* task i is to be converted with delete_original, and the environment
\* refuses the unlink of its source
DeleteFails(i) ==
    /\ Eligible(i)
    /\ args.delete_original
    /\ FilePath(i) \in deny.unlink

C10_SkipSetWins ==
    \A i \in DOMAIN inv :
        Decodable(i) =>
            LET m == MIME(SourceFmt(i))
                allow == args.mime_types
                skip == args.skip_types
            IN  /\ (m \in skip /\ m \in allow) =>
                      /\ ~SaidConverted(i)
                      /\ HasOutcome(i) => inv[i].msg = MsgSkipMime(m, FilePath(i))
                      /\ Ended => HasOutcome(i)
                /\ (m \notin skip /\ m \notin allow) =>
                      /\ ~SaidConverted(i)
                      /\ HasOutcome(i) => inv[i].msg = MsgUnsupported(m, FilePath(i))
                      /\ Ended => HasOutcome(i)

(***************************************************************************)
(* C11: when the input root does not exist the run stops before any task:  *)
(* no worker is called, no file or directory (the output root included) is *)
(* created, written or deleted, and nothing is raised.                     *)
(***************************************************************************)
C11_MissingInputAborts ==
    InputRoot \notin hist.dirs0 =>
        /\ pc \in {"start", "returned"}
        /\ exc = "none"
        /\ dirs = hist.dirs0
        /\ disk = hist.disk0
        /\ Len(tasks) = 0
        /\ DOMAIN inv = {}
        /\ DOMAIN batches = {}
        /\ pc = "returned" => stdout = <<Line("no_input", InputRoot, 0)>>

C11_Witness ==
    /\ InputRoot \notin hist.dirs0
    /\ pc = "returned"
    /\ args.output_path \notin dirs

OnePoolProcess == PoolOfOne(tasks, hist.disk0, DirsAtFanOut, deny)

(***************************************************************************)
(* C13: a batch run by a pool of NumProcs processes ends, under every      *)
(* interleaving of the processes, as the same batch run by a pool of one   *)
(* process: the same exception or the same outcomes, and the same files    *)
(* (paths and contents) and directories on disk.                           *)
(***************************************************************************)
C13_WidthAgnostic ==
    (Ended /\ Len(tasks) >= 1) =>
        /\ exc = OnePoolProcess.exc
        /\ {results[k] : k \in DOMAIN results}
              = {OnePoolProcess.results[k] : k \in DOMAIN OnePoolProcess.results}
        /\ disk = OnePoolProcess.disk
        /\ dirs = OnePoolProcess.dirs

\* two tasks, each in a batch of its own, both called
C13_Witness ==
    /\ Ended
    /\ Len(tasks) = 2
    /\ \A c \in DOMAIN batches : batches[c] # "queued"
    /\ \A i \in DOMAIN inv : inv[i].st # "idle"
    /\ \E i \in DOMAIN inv : Eligible(i)

SecondRunEnded == hist.run = 2 /\ Ended

(***************************************************************************)
(* C14: with delete_original false, a second run on the tree the first     *)
(* left ends as the first did, with the same outcome for every file, and   *)
(* leaves the files as the first run left them, path and content.          *)
(***************************************************************************)
C14_SecondRunIdentical ==
    (SecondRunEnded /\ ~args.delete_original) =>
        /\ exc = hist.exc1
        /\ {results[k] : k \in DOMAIN results} = {hist.res1[k] : k \in DOMAIN hist.res1}
        /\ disk = hist.disk1

\* a second run over files to convert, with the output root in the scanned
\* tree
C14_Witness ==
    /\ SecondRunEnded
    /\ ~args.delete_original
    /\ args.output_path = InputRoot
    /\ \E i \in DOMAIN inv : Eligible(i) /\ inv[i].st # "idle"

\* the outcome of task i is Skipped or Error
SaidSkippedOrError(i) == HasOutcome(i) /\ inv[i].msg[1] \in {"Skipped", "Error"}

\* the step removes file p in the call of the task that has p as source,
\* with delete_original, and that call has written its destination
RemovedByItsTask(p) ==
    \E i \in DOMAIN inv :
        /\ FilePath(i) = p
        /\ args.delete_original
        /\ inv[i].st = "idle"
        /\ inv'[i].st = "returned"
        /\ inv'[i].msg[1] = "Converted"
        /\ Dest(i) \in DOMAIN disk'
        /\ disk'[Dest(i)].fmt = "WEBP" /\ disk'[Dest(i)].q = args.quality

C16_CatalogFixedBeforeFanOut ==
    /\ [][pc # "start" => tasks' = tasks]_vars
    /\ [](pc = "start" => (DOMAIN inv = {} /\ DOMAIN batches = {}))
    /\ []((pc # "start" /\ exc # "PermissionError" /\ InputRoot \in dirs) =>
             Sources = {p \in DOMAIN hist.disk0 :
                           IsPrefix(InputRoot, p.dir) /\ Lower(p.ext) # ".webp"})
    /\ [](\A i, j \in DOMAIN tasks : FilePath(i) = FilePath(j) => i = j)
    /\ [](Sources \cap WrittenInRun = {})

\* a worker has been called over a tree that holds a file with the suffix
\* .WEBP, with the output root inside the input root
C16_Witness ==
    /\ pc = "pool"
    /\ \E i \in DOMAIN inv : inv[i].st # "idle"
    /\ \E p \in DOMAIN hist.disk0 : Lower(p.ext) = ".webp" /\ p.ext # ".webp"
    /\ IsPrefix(InputRoot, args.output_path)

MayBeDeleted == IF args.delete_original THEN Sources ELSE {}

(***************************************************************************)
(* C19: every file of before the run is on disk with the content it had,   *)
(* or it is the source of a converted task, removed with delete_original   *)
(* true; a .webp file of before the run keeps its content.                 *)
(***************************************************************************)
C19_OldFilesUntouched ==
    \A p \in DOMAIN hist.disk0 :
        \/ p \in DOMAIN disk /\ disk[p] = hist.disk0[p]
        \/ /\ p \notin DOMAIN disk
           /\ p \in MayBeDeleted
           /\ \E i \in DOMAIN inv : FilePath(i) = p /\ SaidConverted(i)

\* the run has ended with the output root equal to the input root, over a
\* file to convert whose destination is a .webp file of before the run
C19_Witness ==
    /\ Ended
    /\ args.output_path = InputRoot
    /\ \E i \in DOMAIN inv :
          /\ Eligible(i) /\ inv[i].st # "idle"
          /\ Dest(i) \in DOMAIN hist.disk0
          /\ disk[Dest(i)] = hist.disk0[Dest(i)]

====
